---- MODULE Spec2Model ----
(***************************************************************************)
(* Model of the Infinite Loop jukebox: the playback scheduler of           *)
(* services/AudioEngine.ts driven by its public methods, by the browser's  *)
(* timers and by the audio clock (Spec, SpecFixed, SpecTuned, and          *)
(* SpecLive for playback without a horizon); the App component driving     *)
(* that scheduler through file loads, the play button and the sliders      *)
(* (SpecApp, SpecAppLoaded); and the functions of services/analysis.ts     *)
(* applied to bounded families of inputs (SpecBeats, SpecGraph,            *)
(* SpecChroma).                                                            *)
(*                                                                         *)
(* Time is counted in units of 25 ms (one scheduler lookahead period), so  *)
(* the 0.1 s schedule-ahead window is 4 units.  Probabilities and          *)
(* similarities are counted in hundredths (0.18 is 18, 1 is 100).  Beat    *)
(* indices are 0-based as in the source; beats[i] of the source is         *)
(* beats[i + 1] of the sequence here.                                      *)
(***************************************************************************)
EXTENDS Integers, Sequences, FiniteSets, TLC

\* ---------------------------------------------------------------- bounds
\* ctx.currentTime is explored up to this many 25 ms units.
MaxTime == 2
\* The client completes at most this many loadAudio, setData and
\* updateSettings calls.
MaxCalls == 2
\* ctx.currentTime of the engine with updateSettings() (SpecTuned): at a
\* horizon of 0 the context stays suspended while the timers run, and the
\* beats are scheduled where nextNoteTime equals the end of the window.
MaxTimeTuned == 0
\* ctx.currentTime of the App specification (SpecApp) is explored up to
\* this many units; the loads take their time on the timer clock.
MaxTimeApp == 1
\* ctx.currentTime of the App specification that starts with a track
\* loaded (SpecAppLoaded).
MaxTimeLoaded == 2
\* The client starts the scheduler with play() at most this many times.
MaxPlays == 2
\* In playback without a horizon (SpecLive), the browser runs a tick at
\* most this many units after its timer expired.
MaxLate == 1
\* Analysed sample sequences have at most this many whole 1024-sample
\* windows: enough for three beats 14 windows apart after window 0.
MaxWindows == 30
\* The similarity graph is built for at most this many beats.
MaxBeats == 4
\* Spectra have their energy in the bins 3 .. MaxBin: the two highest bins
\* below 100 Hz and the bins above, up to a second bin of pitch class 9.
MaxBin == 10

\* ------------------------------------------------------ program constants
\* const lookahead = 25.0 (ms): delay of the re-armed tick timer.
Lookahead == 1
\* const scheduleAheadTime = 0.1 (s).
ScheduleAheadTime == 4
\* Variant of PlayDelay: play() starts at ctx.currentTime itself.
PlayDelayNone == 0

\* play(): nextNoteTime = ctx.currentTime + 0.1.
PlayDelay == 4
\* Initial settings of the constructor, in hundredths.
DefaultBranchChance == 18
DefaultSimilarityThreshold == 40

\* timerID = null / buffer = null
NULL == 0

\* ------------------------------------------------------------ input data
Beat(s, d) == [start |-> s, duration |-> d]
Edge(s, d, sim) == [source |-> s, dest |-> d, similarity |-> sim]

\* Three beats; similarities are symmetric as computeSimilarityEdges
\* produces them (both directions of every retained pair).
TrackA ==
  [id |-> 1,
   beats |-> << Beat(0, 2), Beat(2, 3), Beat(5, 2) >>,
   edges |-> << Edge(0, 1, 90), Edge(0, 2, 50), Edge(1, 0, 90),
                Edge(1, 2, 65), Edge(2, 0, 50), Edge(2, 1, 65) >>]

\* Two beats: a shorter track.
TrackB ==
  [id |-> 2,
   beats |-> << Beat(0, 3), Beat(3, 2) >>,
   edges |-> << Edge(0, 1, 80), Edge(1, 0, 80) >>]

\* The engine starts with no beats (Init), so the empty beat list is
\* covered without a track of its own.
Tracks == {TrackA, TrackB}

\* Values the two sliders are set to, and values Math.random() returns
\* (hundredths; Math.random() is in [0, 1), so 100 is never drawn).
BranchChances == {0, 18, 100}
Thresholds == {40, 60}
RandomDraws == {0, 50}

SettingKeys == {"branchChance", "similarityThreshold"}
\* The values updateSettings() receives: each slider moved to one value off
\* its default, alone or together with the other.
MovedChances == {100}
MovedThresholds == {60}
Partials ==
  UNION { [K -> MovedChances \cup MovedThresholds] : K \in SUBSET SettingKeys }
ValidPartials ==
  { p \in Partials :
      /\ ("branchChance" \in DOMAIN p => p["branchChance"] \in MovedChances)
      /\ ("similarityThreshold" \in DOMAIN p =>
            p["similarityThreshold"] \in MovedThresholds) }

Max(a, b) == IF a > b THEN a ELSE b

VARIABLES
  buffer,            \* AudioEngine.buffer: NULL or the id of the decoded track
  beats,             \* AudioEngine.beats
  edges,             \* AudioEngine.edges
  settings,          \* AudioEngine.settings
  nextNoteTime,      \* AudioEngine.nextNoteTime
  currentBeatIndex,  \* AudioEngine.currentBeatIndex
  timerID,           \* AudioEngine.timerID
  isPlaying,         \* AudioEngine.isPlaying
  clock,             \* ctx.currentTime
  audio,             \* the audio context: "suspended", or running with
                     \* ctx.currentTime "inStep" with the browser's timer
                     \* clock or one unit "behind" it
  tickTimers,        \* pending window.setTimeout(() => this.scheduler())
  notifyTimers,      \* pending setTimeout(() => onProgress) of scheduleNote
                     \* A timer's due is the time left on the browser's
                     \* timer clock until it expires (0: expired), its
                     \* delay the due it was set with.
  hung,              \* the scheduler's while loop is spinning for ever
  plays,             \* history: play() calls that started the scheduler
  sched,             \* history: every source.start(time, start, duration)
  adv,               \* history: advances of the latest scheduler() call
  delivered,         \* history: every onProgress(beatIndex) call
  pausedSegs,        \* history: Len(sched) when pause() last returned
  calls,             \* history: number of loadAudio/setData/updateSettings calls
                     \* that returned
  lastCall,          \* history: the play()/pause()/updateSettings() call
                     \* that ran last, if the latest handler was one, and
                     \* isPlaying before it
  app,               \* the App component: its React state and its pending load
  an                 \* an analysis run: its input, then its result

vars == << buffer, beats, edges, settings, nextNoteTime, currentBeatIndex,
           timerID, isPlaying, clock, audio, tickTimers, notifyTimers, hung,
           plays, sched, adv, delivered, pausedSegs, calls, lastCall,
          app, an >>

NoCall == [op |-> "none", wasPlaying |-> FALSE]

\* Value of app where no App component drives the engine, and of an where
\* no analysis runs.
NoApp == [mounted |-> FALSE]
NoAnalysis == [stage |-> "none"]

\* ------------------------------------------------------- AudioEngine helpers
\* Truthiness of this.beats[i].
HasBeat(i) == i \in 0 .. (Len(beats) - 1)

BeatAt(i) == beats[i + 1]

\* Variant of Candidates: the immediate neighbour is not excluded.
CandidatesWithNeighbour(i) ==
  SelectSeq(edges, LAMBDA e :
    /\ e.source = i
    /\ e.similarity >= settings.similarityThreshold)

\* Variant of Candidates: the similarity threshold is not applied.
CandidatesAnySimilarity(i) ==
  SelectSeq(edges, LAMBDA e :
    /\ e.source = i
    /\ e.dest # i + 1)

\* advanceBeat, "Find candidates": this.edges.filter(...)
Candidates(i) ==
  SelectSeq(edges, LAMBDA e :
    /\ e.source = i
    /\ e.similarity >= settings.similarityThreshold
    /\ e.dest # i + 1)

\* Variant of LinearNext: wraps one beat late (> instead of >=).
LinearNextWrapLate(i) == IF i + 1 > Len(beats) THEN 0 ELSE i + 1

\* Variant of LinearNext: the index does not wrap after the last beat.
LinearNextNoWrap(i) == i + 1

\* advanceBeat, "Linear Playback": currentBeatIndex++ and loop to start.
LinearNext(i) == IF i + 1 >= Len(beats) THEN 0 ELSE i + 1

\* Variant of TakesBranch: <= instead of <.
TakesBranchInclusive(r) == r <= settings.branchChance

\* advanceBeat, "Check for branches": Math.random() < this.settings.branchChance
TakesBranch(r) == r < settings.branchChance

\* candidates[Math.floor(Math.random() * candidates.length)]
PickIndex(r, n) == (r * n) \div 100

\* The part of the state a scheduler() call works on.
LoopState(idx, nnt) ==
  [idx |-> idx, nnt |-> nnt, sched |-> sched, notify |-> notifyTimers,
   adv |-> << >>, hung |-> FALSE]

\* Variant of ScheduleNote: the notification timer is set with no delay.
ScheduleNoteNotifyNow(s) ==
  IF buffer = NULL \/ ~HasBeat(s.idx)
    THEN s
    ELSE [s EXCEPT
            !.sched = Append(@, [beatIndex |-> s.idx, time |-> s.nnt,
                                 offset |-> BeatAt(s.idx).start,
                                 duration |-> BeatAt(s.idx).duration,
                                 buffer |-> buffer]),
            !.notify = @ \cup {[beatIndex |-> s.idx,
                                delay |-> 0, due |-> 0, at |-> clock,
                                seg |-> Len(s.sched) + 1]}]

\* scheduleNote(beatIndex, time): source.start(...) and the notification
\* timer, or nothing when there is no buffer or no such beat.  The timer's
\* delay is max(0, (time - ctx.currentTime) * 1000) ms on the browser's
\* timer clock; the timer is recorded with ctx.currentTime at the call.
ScheduleNote(s) ==
  IF buffer = NULL \/ ~HasBeat(s.idx)
    THEN s
    ELSE [s EXCEPT
            !.sched = Append(@, [beatIndex |-> s.idx, time |-> s.nnt,
                                 offset |-> BeatAt(s.idx).start,
                                 duration |-> BeatAt(s.idx).duration,
                                 buffer |-> buffer]),
            !.notify = @ \cup {[beatIndex |-> s.idx,
                                delay |-> Max(0, s.nnt - clock),
                                due |-> Max(0, s.nnt - clock), at |-> clock,
                                seg |-> Len(s.sched) + 1]}]

\* advanceBeat(): the states it can leave, one per outcome of Math.random().
AdvanceBeat(s) ==
  IF ~HasBeat(s.idx)
    THEN {s}
    ELSE
      LET t == s.nnt + BeatAt(s.idx).duration
          c == Candidates(s.idx)
          jump(r1, r2) ==
            [s EXCEPT !.nnt = t,
                      !.idx = c[PickIndex(r2, Len(c)) + 1].dest,
                      !.adv = Append(@, [from |-> s.idx,
                                         to |-> c[PickIndex(r2, Len(c)) + 1].dest,
                                         draw |-> r1, jumped |-> TRUE])]
          linear(r1) ==
            [s EXCEPT !.nnt = t,
                      !.idx = LinearNext(s.idx),
                      !.adv = Append(@, [from |-> s.idx,
                                         to |-> LinearNext(s.idx),
                                         draw |-> r1, jumped |-> FALSE])]
      IN { IF TakesBranch(r1) /\ Len(c) > 0
             THEN jump(r1, r2) ELSE linear(r1) :
           r1 \in RandomDraws, r2 \in RandomDraws }

\* The while loop of scheduler(): every state it can end in.  When the
\* condition holds and there is no beat at the current index, neither
\* scheduleNote nor advanceBeat changes anything, so the condition holds
\* for ever: the loop never ends (hung).
\* The condition compares floats and reads ctx.currentTime anew each time:
\* nextNoteTime is a sum of floats that can fall an ulp short of the exact
\* sum (0.1 + 0.075 + 0.05 < 0.125 + 0.1), and the audio clock moves on
\* during the call, so play() can find nextNoteTime, which it has just set
\* to currentTime + 0.1, already below currentTime + 0.1.  When the two
\* sides are equal in units of 25 ms the comparison can go either way.
RECURSIVE SchedulerLoop(_)
SchedulerLoop(s) ==
  LET iterate(t) ==
        IF ~HasBeat(t.idx)
          THEN {[t EXCEPT !.hung = TRUE]}
          ELSE UNION { SchedulerLoop(t2) : t2 \in AdvanceBeat(ScheduleNote(t)) }
  IN  IF s.nnt < clock + ScheduleAheadTime
        THEN iterate(s)
        ELSE IF s.nnt = clock + ScheduleAheadTime
               THEN {s} \cup iterate(s)
               ELSE {s}

\* window.setTimeout returns a handle no pending timer and no stored handle
\* has; handles are positive.
FreshTimerId(timers, held) ==
  CHOOSE n \in 1 .. (Cardinality(timers) + 2) :
    /\ n # held
    /\ \A t \in timers : t.id # n

\* scheduler(), called with isPlaying = playing while the timers in
\* `timers` are pending: the loop, then the re-arming of the tick.
Scheduler(playing, timers, idx, nnt) ==
  \E o \in SchedulerLoop(LoopState(idx, nnt)) :
    /\ currentBeatIndex' = o.idx
    /\ nextNoteTime' = o.nnt
    /\ sched' = o.sched
    /\ adv' = o.adv
    /\ notifyTimers' = o.notify
    /\ hung' = o.hung
    /\ IF playing /\ ~o.hung
         THEN LET id == FreshTimerId(timers, timerID) IN
                /\ timerID' = id
                /\ tickTimers' = timers \cup {[id |-> id, due |-> Lookahead]}
         ELSE /\ timerID' = timerID
              /\ tickTimers' = timers

\* ---------------------------------------------------------------- actions
Init ==
  /\ buffer = NULL
  /\ beats = << >>
  /\ edges = << >>
  /\ settings = [branchChance |-> DefaultBranchChance,
                 similarityThreshold |-> DefaultSimilarityThreshold]
  /\ nextNoteTime = 0
  /\ currentBeatIndex = 0
  /\ timerID = NULL
  /\ isPlaying = FALSE
  /\ clock = 0
  /\ audio = "suspended"
  /\ tickTimers = {}
  /\ notifyTimers = {}
  /\ hung = FALSE
  /\ plays = 0
  /\ sched = << >>
  /\ adv = << >>
  /\ delivered = << >>
  /\ pausedSegs = 0
  /\ calls = 0
  /\ lastCall = NoCall
  /\ app = NoApp
  /\ an = NoAnalysis

\* loadAudio(file): decodeAudioData either yields the file's buffer or throws.
LoadAudio ==
  /\ ~hung
  /\ UNCHANGED << app, an >>
  /\ lastCall' = NoCall
  /\ calls < MaxCalls
  /\ \E t \in Tracks, ok \in BOOLEAN :
       IF ok
         THEN buffer' = t.id /\ calls' = calls + 1
         ELSE UNCHANGED << buffer, calls >>
  /\ UNCHANGED << beats, edges, settings, nextNoteTime, currentBeatIndex,
                  timerID, isPlaying, clock, audio, tickTimers, notifyTimers, hung, plays,
                  sched, adv, delivered, pausedSegs >>

\* setData(beats, edges)
SetData ==
  /\ ~hung
  /\ UNCHANGED << app, an >>
  /\ lastCall' = NoCall
  /\ calls < MaxCalls
  /\ calls' = calls + 1
  /\ \E t \in Tracks :
       /\ beats' = t.beats
       /\ edges' = t.edges
  /\ UNCHANGED << buffer, settings, nextNoteTime, currentBeatIndex,
                  timerID, isPlaying, clock, audio, tickTimers, notifyTimers, hung, plays,
                  sched, adv, delivered, pausedSegs >>

\* Variant of Merge: the partial is merged into the constructor's defaults.
MergeIntoDefaults(old, p) ==
  [k \in SettingKeys |->
     IF k \in DOMAIN p THEN p[k]
     ELSE IF k = "branchChance" THEN DefaultBranchChance
                                ELSE DefaultSimilarityThreshold]

\* updateSettings(newSettings): { ...this.settings, ...newSettings }
Merge(old, p) == [k \in SettingKeys |-> IF k \in DOMAIN p THEN p[k] ELSE old[k]]

UpdateSettings ==
  /\ ~hung
  /\ UNCHANGED << app, an >>
  /\ calls < MaxCalls
  /\ calls' = calls + 1
  /\ \E p \in ValidPartials :
       /\ settings' = Merge(settings, p)
       /\ lastCall' = [op |-> "updateSettings", wasPlaying |-> isPlaying,
                       partial |-> p]
  /\ UNCHANGED << buffer, beats, edges, nextNoteTime, currentBeatIndex,
                  timerID, isPlaying, clock, audio, tickTimers, notifyTimers, hung, plays,
                  sched, adv, delivered, pausedSegs >>

\* Variant of Play: no early return when already playing.
PlayRestart ==
  /\ ~hung
  /\ UNCHANGED << app, an >>
  /\ lastCall' = [op |-> "play", wasPlaying |-> isPlaying]
  /\ plays < MaxPlays
  /\ plays' = plays + 1
  /\ isPlaying' = TRUE
  /\ Scheduler(TRUE, tickTimers, currentBeatIndex, clock + PlayDelay)
  /\ UNCHANGED << buffer, beats, edges, settings, clock, audio,
                  delivered, pausedSegs, calls >>

\* What play() does to the engine: nothing when already playing, else
\* isPlaying = true, nextNoteTime = ctx.currentTime + 0.1, scheduler().
EnginePlay ==
  /\ lastCall' = [op |-> "play", wasPlaying |-> isPlaying]
  /\ IF isPlaying
       THEN UNCHANGED << nextNoteTime, currentBeatIndex, timerID, isPlaying,
                         tickTimers, notifyTimers, hung, plays, sched, adv >>
       ELSE /\ plays < MaxPlays
            /\ plays' = plays + 1
            /\ isPlaying' = TRUE
            /\ Scheduler(TRUE, tickTimers, currentBeatIndex, clock + PlayDelay)
  /\ UNCHANGED << buffer, beats, edges, settings, clock, audio, delivered,
                  pausedSegs >>

\* play()
Play ==
  /\ ~hung
  /\ UNCHANGED << app, an >>
  /\ EnginePlay
  /\ UNCHANGED calls

\* Variant of Pause: the pending tick timer is not cleared.
PauseKeepsTimer ==
  /\ ~hung
  /\ UNCHANGED << app, an >>
  /\ lastCall' = [op |-> "pause", wasPlaying |-> isPlaying]
  /\ isPlaying' = FALSE
  /\ pausedSegs' = Len(sched)
  /\ UNCHANGED << buffer, beats, edges, settings, nextNoteTime,
                  currentBeatIndex, timerID, tickTimers, clock, audio, notifyTimers,
                  hung, plays, sched, adv, delivered, calls >>

\* What pause() does to the engine: isPlaying = false, and the stored
\* timer, if any, is cleared.
EnginePause ==
  /\ lastCall' = [op |-> "pause", wasPlaying |-> isPlaying]
  /\ isPlaying' = FALSE
  /\ IF timerID # NULL
       THEN /\ tickTimers' = { t \in tickTimers : t.id # timerID }
            /\ timerID' = NULL
       ELSE UNCHANGED << tickTimers, timerID >>
  /\ pausedSegs' = Len(sched)
  /\ UNCHANGED << buffer, beats, edges, settings, nextNoteTime,
                  currentBeatIndex, clock, audio, notifyTimers, hung, plays,
                  sched, adv, delivered >>

\* pause()
Pause ==
  /\ ~hung
  /\ UNCHANGED << app, an >>
  /\ EnginePause
  /\ UNCHANGED calls

\* A pending tick timer has expired and runs: () => this.scheduler().
\* ctx.currentTime is whatever the audio clock reads by then.
Tick ==
  /\ ~hung
  /\ UNCHANGED << app, an >>
  /\ lastCall' = NoCall
  /\ \E t \in tickTimers :
       /\ t.due <= 0
       /\ Scheduler(isPlaying, tickTimers \ {t}, currentBeatIndex, nextNoteTime)
  /\ UNCHANGED << buffer, beats, edges, settings, isPlaying, clock, audio,
                  delivered, pausedSegs, calls, plays >>

\* A pending notification timer has expired and runs:
\* () => { if (this.isPlaying) this.onProgress(beatIndex) }
\* The browser runs expired timers in the order of their expiry times, and
\* timers of equal expiry in the order they were set.
Notify ==
  /\ ~hung
  /\ UNCHANGED << app, an >>
  /\ lastCall' = NoCall
  /\ \E n \in notifyTimers :
       /\ n.due <= 0
       /\ \A m \in notifyTimers :
            m.due > n.due \/ (m.due = n.due /\ m.seg >= n.seg)
       /\ notifyTimers' = notifyTimers \ {n}
       /\ delivered' =
            IF isPlaying
              THEN Append(delivered, [beatIndex |-> n.beatIndex, seg |-> n.seg,
                                      afterPause |-> n.seg <= pausedSegs])
              ELSE delivered
  /\ UNCHANGED << buffer, beats, edges, settings, nextNoteTime,
                  currentBeatIndex, timerID, isPlaying, clock, audio, tickTimers,
                  hung, plays, sched, adv, pausedSegs, calls >>

\* The timers of the application that are pending.
AnalysisPending == app.mounted /\ app.phase = "analysisPending"

\* What one unit of time on the browser's timer clock does to
\* ctx.currentTime, the clock of the audio context: pairs of the units it
\* advances by and of the state of the context afterwards.  The context is
\* created suspended and ctx.currentTime stands still until the context
\* starts: when the browser lets it, at the latest some time after play()
\* has called resume().  A running context moves ctx.currentTime on a
\* block of samples at a time, a block being shorter than a unit: the
\* value read is in step with the timer clock or one unit behind it, so
\* that it advances by no unit (falling behind), by one, or by two
\* (catching up).
ClockSteps ==
  CASE audio = "suspended" -> {<< 0, "suspended" >>, << 1, "inStep" >>}
    [] audio = "inStep" -> {<< 1, "inStep" >>, << 0, "behind" >>}
    [] audio = "behind" -> {<< 1, "behind" >>, << 2, "inStep" >>}

\* One unit of time passes: every pending timer comes one unit closer to
\* its expiry, an expired timer that has not run yet stays expired, and
\* ctx.currentTime advances, up to the horizon.
Elapse(horizon) ==
  /\ lastCall' = NoCall
  /\ \E st \in ClockSteps :
       /\ clock + st[1] <= horizon
       /\ clock' = clock + st[1]
       /\ audio' = st[2]
  /\ tickTimers' = { [t EXCEPT !.due = Max(0, @ - 1)] : t \in tickTimers }
  /\ notifyTimers' = { [n EXCEPT !.due = Max(0, @ - 1)] : n \in notifyTimers }
  /\ app' = IF AnalysisPending THEN [app EXCEPT !.due = Max(0, @ - 1)]
                               ELSE app
  /\ UNCHANGED << buffer, beats, edges, settings, nextNoteTime,
                  currentBeatIndex, timerID, isPlaying, hung, plays, sched,
                  adv, delivered, pausedSegs, calls, an >>

\* Time passes for the engine.
AdvanceClock ==
  /\ ~hung
  /\ Elapse(MaxTime)

Next ==
  \/ LoadAudio
  \/ SetData
  \/ UpdateSettings
  \/ Play
  \/ Pause
  \/ Tick
  \/ Notify
  \/ AdvanceClock

Spec == Init /\ [][Next]_vars

\* The engine with one track loaded and the sliders set, then driven by
\* play(), pause() and the timers only: the state after
\* loadAudio(file); setData(beats, edges); updateSettings(settings).
FixedTracks == Tracks

InitFixed ==
  /\ \E t \in FixedTracks :
       /\ buffer = t.id
       /\ beats = t.beats
       /\ edges = t.edges
  /\ \E b \in BranchChances, th \in Thresholds :
       settings = [branchChance |-> b, similarityThreshold |-> th]
  /\ nextNoteTime = 0
  /\ currentBeatIndex = 0
  /\ timerID = NULL
  /\ isPlaying = FALSE
  /\ clock = 0
  /\ audio = "suspended"
  /\ tickTimers = {}
  /\ notifyTimers = {}
  /\ hung = FALSE
  /\ plays = 0
  /\ sched = << >>
  /\ adv = << >>
  /\ delivered = << >>
  /\ pausedSegs = 0
  /\ calls = 0
  /\ lastCall = NoCall
  /\ app = NoApp
  /\ an = NoAnalysis

NextFixed ==
  \/ Play
  \/ Pause
  \/ Tick
  \/ Notify
  \/ AdvanceClock

SpecFixed == InitFixed /\ [][NextFixed]_vars

\* The engine with one track loaded and the settings of the constructor.
InitLoaded ==
  /\ InitFixed
  /\ settings = [branchChance |-> DefaultBranchChance,
                 similarityThreshold |-> DefaultSimilarityThreshold]

\* Time passes, ctx.currentTime up to the horizon of this specification.
AdvanceClockTuned ==
  /\ ~hung
  /\ Elapse(MaxTimeTuned)

\* The loaded engine driven also by updateSettings() at any time.
NextTuned ==
  \/ Play
  \/ Pause
  \/ Tick
  \/ Notify
  \/ UpdateSettings
  \/ AdvanceClockTuned

SpecTuned == InitLoaded /\ [][NextTuned]_vars

\* ------------------------------------------------------ unbounded playback
\* The engine of SpecFixed started and left Running for ever.  The engine
\* reads the clock only to compare it with nextNoteTime and to set timers,
\* so its behaviour depends on differences of times only: here every time
\* is kept relative to ctx.currentTime, which stays 0, and a step of the
\* audio clock moves nextNoteTime closer.  The histories hold what
\* happened since time last passed.  The context is not left suspended,
\* and no timer is left waiting for ever: a tick runs up to MaxLate units
\* after its timer expired (a due below 0 tells how long ago that was), so
\* that one tick may find several beats inside the window; a notification,
\* which only calls the observer, runs before time passes on.
ClockShift ==
  /\ ~hung
  /\ lastCall' = NoCall
  /\ \A t \in tickTimers : t.due > 0 - MaxLate
  /\ \A n \in notifyTimers : n.due > 0
  /\ \E st \in ClockSteps :
       /\ st[2] # "suspended"
       /\ nextNoteTime' = IF isPlaying THEN nextNoteTime - st[1] ELSE 0
       /\ audio' = st[2]
  /\ tickTimers' = { [t EXCEPT !.due = @ - 1] : t \in tickTimers }
  /\ notifyTimers' = { [n EXCEPT !.due = @ - 1] : n \in notifyTimers }
  /\ sched' = << >>
  /\ adv' = << >>
  /\ delivered' = << >>
  /\ pausedSegs' = 0
  /\ UNCHANGED << buffer, beats, edges, settings, currentBeatIndex, timerID,
                  isPlaying, clock, hung, plays, calls, app, an >>

NextLive ==
  \/ Play
  \/ Tick
  \/ Notify
  \/ ClockShift

\* Timers that have expired are run, and time passes.
SpecLive ==
  /\ InitLoaded
  /\ [][NextLive]_vars
  /\ WF_vars(Tick)
  /\ WF_vars(Notify)
  /\ WF_vars(ClockShift)

\* ------------------------------------------------------------------- App
\* The App component of part_000 (App.tsx) driving one engine: its React
\* state, its handlers and the Controls that reach them.
\* Initial React settings, in hundredths.
AppBranchChance == 35
AppSimilarityThreshold == 45
\* setTimeout(..., 100) of handleFileChange, in 25 ms units.
AnalysisDelay == 4

\* The files the user picks: what decodeAudioData and analyzeAudio make of
\* each.  A file that decodes puts a buffer of its own id into the engine.
NoTrack == [id |-> 0, beats |-> << >>, edges |-> << >>]
FileA == [id |-> 1, decodes |-> TRUE, analyses |-> TRUE, track |-> TrackA]
FileB == [id |-> 2, decodes |-> TRUE, analyses |-> TRUE, track |-> TrackB]
FileCorrupt == [id |-> 3, decodes |-> FALSE, analyses |-> FALSE,
                track |-> NoTrack]
FileUnanalysable == [id |-> 4, decodes |-> TRUE, analyses |-> FALSE,
                     track |-> NoTrack]
Files == {FileA, FileB, FileCorrupt, FileUnanalysable}
\* The files picked while the model runs; FileB is a track that may be loaded
\* when SpecAppLoaded starts.
PickedFiles == {FileA, FileCorrupt, FileUnanalysable}

\* Marks in lastCall of the handlers that end a load.
LoadFailed == [op |-> "loadFailed", wasPlaying |-> FALSE]
LoadDone == [op |-> "loadDone", wasPlaying |-> FALSE]

\* app.pausedByLoad is history: whether the latest handleFileChange found
\* the App playing.
\* The component after its first render and its two effects: the engine is
\* constructed and updateSettings(settings) has run.
InitApp ==
  /\ buffer = NULL
  /\ beats = << >>
  /\ edges = << >>
  /\ settings = [branchChance |-> AppBranchChance,
                 similarityThreshold |-> AppSimilarityThreshold]
  /\ nextNoteTime = 0
  /\ currentBeatIndex = 0
  /\ timerID = NULL
  /\ isPlaying = FALSE
  /\ clock = 0
  /\ audio = "suspended"
  /\ tickTimers = {}
  /\ notifyTimers = {}
  /\ hung = FALSE
  /\ plays = 0
  /\ sched = << >>
  /\ adv = << >>
  /\ delivered = << >>
  /\ pausedSegs = 0
  /\ calls = 0
  /\ lastCall = NoCall
  /\ app = [mounted |-> TRUE, analysis |-> NoTrack, isPlaying |-> FALSE,
            isLoading |-> FALSE, status |-> "Waiting for file...",
            phase |-> "idle", file |-> FileCorrupt, due |-> 0,
            pausedByLoad |-> FALSE]
  /\ an = NoAnalysis

\* Variant of FileChange: the handler does not pause a playing engine.
FileChangeNoPause ==
  /\ ~hung
  /\ ~app.isLoading
  /\ calls < MaxCalls
  /\ calls' = calls + 1
  /\ \E f \in PickedFiles :
       app' = [app EXCEPT !.isLoading = TRUE,
                          !.status = "Decoding Audio...",
                          !.phase = "decoding", !.file = f,
                          !.pausedByLoad = FALSE]
  /\ lastCall' = NoCall
  /\ UNCHANGED << buffer, beats, edges, settings, nextNoteTime,
                  currentBeatIndex, timerID, isPlaying, clock, audio, tickTimers,
                  notifyTimers, hung, plays, sched, adv, delivered, pausedSegs >>
  /\ UNCHANGED an

\* handleFileChange up to its await: the file input is enabled only while
\* not loading; a playing engine is paused; the decoding starts.
FileChange ==
  /\ ~hung
  /\ ~app.isLoading
  /\ calls < MaxCalls
  /\ calls' = calls + 1
  /\ \E f \in PickedFiles :
       app' = [app EXCEPT !.isPlaying = FALSE, !.isLoading = TRUE,
                          !.status = "Decoding Audio...",
                          !.phase = "decoding", !.file = f,
                          !.pausedByLoad = app.isPlaying]
  /\ IF app.isPlaying
       THEN EnginePause
       ELSE /\ lastCall' = NoCall
            /\ UNCHANGED << buffer, beats, edges, settings, nextNoteTime,
                            currentBeatIndex, timerID, isPlaying, clock, audio,
                            tickTimers, notifyTimers, hung, plays, sched, adv,
                            delivered, pausedSegs >>
  /\ UNCHANGED an

\* await loadAudio(file) settles: the buffer is stored and the analysis
\* timer armed, or decodeAudioData threw and the outer catch runs.
DecodeDone ==
  /\ ~hung
  /\ app.phase = "decoding"
  /\ IF app.file.decodes
       THEN /\ buffer' = app.file.id
            /\ app' = [app EXCEPT !.status = "Analyzing Beats & Features...",
                                  !.phase = "analysisPending",
                                  !.due = AnalysisDelay]
            /\ lastCall' = NoCall
       ELSE /\ buffer' = buffer
            /\ app' = [app EXCEPT !.status = "Error loading file.",
                                  !.isLoading = FALSE, !.phase = "idle"]
            /\ lastCall' = LoadFailed
  /\ UNCHANGED << beats, edges, settings, nextNoteTime, currentBeatIndex,
                  timerID, isPlaying, clock, audio, tickTimers, notifyTimers, hung, plays,
                  sched, adv, delivered, pausedSegs, calls, an >>

\* The analysis timer has expired and runs: analyzeAudio(buffer), then
\* setAnalysis and setData, or the inner catch.  app.due is the time left on
\* the timer clock.
AnalysisTimer ==
  /\ ~hung
  /\ app.phase = "analysisPending"
  /\ app.due <= 0
  /\ IF app.file.analyses
       THEN /\ beats' = app.file.track.beats
            /\ edges' = app.file.track.edges
            /\ app' = [app EXCEPT !.analysis = app.file.track,
                                  !.status = "Ready!", !.due = 0,
                                  !.isLoading = FALSE, !.phase = "idle"]
            /\ lastCall' = LoadDone
       ELSE /\ UNCHANGED << beats, edges >>
            /\ app' = [app EXCEPT !.status = "Analysis Failed.", !.due = 0,
                                  !.isLoading = FALSE, !.phase = "idle"]
            /\ lastCall' = LoadFailed
  /\ UNCHANGED << buffer, settings, nextNoteTime, currentBeatIndex,
                  timerID, isPlaying, clock, audio, tickTimers, notifyTimers, hung, plays,
                  sched, adv, delivered, pausedSegs, calls, an >>

\* togglePlay, reached through the play button, which is disabled while
\* loading and before the first file is picked.  setIsPlaying runs after
\* play() or pause() has returned: not at all when play() never returns.
TogglePlay ==
  /\ ~hung
  /\ ~app.isLoading
  /\ app.status # "Waiting for file..."
  /\ IF app.analysis = NoTrack
       THEN /\ lastCall' = NoCall
            /\ UNCHANGED << buffer, beats, edges, settings, nextNoteTime,
                            currentBeatIndex, timerID, isPlaying, clock, audio,
                            tickTimers, notifyTimers, hung, plays, sched, adv,
                            delivered, pausedSegs, app >>
       ELSE /\ IF app.isPlaying THEN EnginePause ELSE EnginePlay
            /\ app' = IF hung' THEN app
                               ELSE [app EXCEPT !.isPlaying = ~app.isPlaying]
  /\ UNCHANGED << calls, an >>

\* A slider moves: setSettings({...settings, key: value}), and the effect
\* calls updateSettings(settings) with the whole object.
SettingsChange ==
  /\ ~hung
  /\ calls < MaxCalls
  /\ calls' = calls + 1
  /\ lastCall' = NoCall
  /\ \E p \in ValidPartials :
       /\ Cardinality(DOMAIN p) = 1
       /\ settings' = Merge(settings, Merge(settings, p))
  /\ UNCHANGED << buffer, beats, edges, nextNoteTime, currentBeatIndex,
                  timerID, isPlaying, clock, audio, tickTimers, notifyTimers, hung, plays,
                  sched, adv, delivered, pausedSegs, app, an >>

\* Time passes for the application.
AdvanceClockApp ==
  /\ ~hung
  /\ Elapse(MaxTimeApp)

\* The App from its first render, driven by file picks and the play button;
\* the sliders are left alone.
NextApp ==
  \/ FileChange
  \/ DecodeDone
  \/ AnalysisTimer
  \/ TogglePlay
  \/ Tick
  \/ Notify
  \/ AdvanceClockApp

SpecApp == InitApp /\ [][NextApp]_vars

\* The application once a first file has been loaded and analysed and
\* before the first play().
InitAppLoaded ==
  /\ \E f \in {FileA, FileB} :
       /\ buffer = f.id
       /\ beats = f.track.beats
       /\ edges = f.track.edges
       /\ app = [mounted |-> TRUE, analysis |-> f.track, isPlaying |-> FALSE,
                 isLoading |-> FALSE, status |-> "Ready!",
                 phase |-> "idle", file |-> f, due |-> 0,
                 pausedByLoad |-> FALSE]
  /\ settings = [branchChance |-> AppBranchChance,
                 similarityThreshold |-> AppSimilarityThreshold]
  /\ nextNoteTime = 0
  /\ currentBeatIndex = 0
  /\ timerID = NULL
  /\ isPlaying = FALSE
  /\ clock = 0
  /\ audio = "suspended"
  /\ tickTimers = {}
  /\ notifyTimers = {}
  /\ hung = FALSE
  /\ plays = 0
  /\ sched = << >>
  /\ adv = << >>
  /\ delivered = << >>
  /\ pausedSegs = 0
  /\ calls = 0
  /\ lastCall = NoCall
  /\ an = NoAnalysis

\* Time passes, ctx.currentTime up to the horizon of this specification.
AdvanceClockLoaded ==
  /\ ~hung
  /\ Elapse(MaxTimeLoaded)

NextAppLoaded ==
  \/ FileChange
  \/ DecodeDone
  \/ AnalysisTimer
  \/ TogglePlay
  \/ SettingsChange
  \/ Tick
  \/ Notify
  \/ AdvanceClockLoaded

SpecAppLoaded == InitAppLoaded /\ [][NextAppLoaded]_vars

\* ------------------------------------------------------------ detectBeats
\* services/analysis.ts on a sample sequence.  The input is a Float32Array
\* given window by window: every sample of window i has the amplitude
\* amps[i + 1] (in quarters of full scale), and `tail` more samples follow
\* the last whole window.  Times are in milliseconds; the sample rates are
\* such that every time the code computes is a whole number of them.
\* Comparisons are made in exact arithmetic.
WindowSize == 1024
HistorySize == 43
MinBeatInterval == 13
\* multiplier = 1.5, as a fraction.
MultiplierNum == 3
MultiplierDen == 2

Quiet == 1
Loud == 4
Amplitudes == {0, Quiet, Loud}
Tails == {0, 512}
\* Sample rates: one every browser supports, one below the range every
\* browser must support, and two that are not positive.
SampleRates == {8000, 4000, 0, -8000}

\* The sample sequences of at most maxw whole windows that are analysed: a
\* constant level with at most two louder windows.
LoudSets(w) ==
  {{}} \cup { {a, b} : a \in 0 .. (w - 1), b \in 0 .. (w - 1) }
AmpsOf(w, base, L) ==
  [i \in 1 .. w |-> IF (i - 1) \in L THEN Loud ELSE base]
SampleData(maxw) ==
  UNION { { [amps |-> AmpsOf(w, base, L), tail |-> t] :
              base \in {0, Quiet}, L \in LoudSets(w), t \in Tails } :
          w \in 0 .. maxw }

\* data.length
DataLength(d) == Len(d.amps) * WindowSize + d.tail

\* samples / sampleRate, in milliseconds.
TimeOf(samples, rate) ==
  IF rate < 0 THEN 0 - ((samples * 1000) \div (0 - rate))
              ELSE (samples * 1000) \div rate

\* Math.sqrt, rounded down to a whole number: the r with
\* r * r <= n < (r + 1) * (r + 1), searched between lo and hi.
RECURSIVE SqrtBetween(_, _, _)
SqrtBetween(n, lo, hi) ==
  IF lo >= hi THEN lo
  ELSE LET mid == (lo + hi + 1) \div 2 IN
         IF mid * mid <= n THEN SqrtBetween(n, mid, hi)
                           ELSE SqrtBetween(n, lo, mid - 1)
ISqrt(n) == SqrtBetween(n, 0, IF n < 40000 THEN n ELSE 40000)

\* energies[i] = Math.sqrt(sum / windowSize), sum being the sum of the
\* squares of the windowSize samples of window i, all of amplitude v.
WindowEnergy(v) == ISqrt((WindowSize * v * v) \div WindowSize)
Energies(d) == [i \in 1 .. Len(d.amps) |-> WindowEnergy(d.amps[i])]

\* start = Math.max(0, i - historySize)
HistoryStart(i) == Max(0, i - HistorySize)

\* for (k = start; k < i; k++) sumHistory += energies[k]
RECURSIVE SumEnergies(_, _, _)
SumEnergies(e, from, to) ==
  IF from >= to THEN 0 ELSE e[from + 1] + SumEnergies(e, from + 1, to)

\* energies[i] > avgHistory * multiplier, where
\* avgHistory = sumHistory / (i - start + 1)
AboveThreshold(e, i) ==
  e[i + 1] * (i - HistoryStart(i) + 1) * MultiplierDen
    > SumEnergies(e, HistoryStart(i), i) * MultiplierNum

\* The loop of detectBeats from window i on, with the beats found so far
\* and lastBeatIndex.
RECURSIVE DetectFrom(_, _, _, _, _)
DetectFrom(e, rate, i, found, lastBeatIndex) ==
  IF i >= Len(e) THEN found
  ELSE IF AboveThreshold(e, i) /\ (i - lastBeatIndex) > MinBeatInterval
    THEN LET time == TimeOf(i * WindowSize, rate)
             closed ==
               IF Len(found) > 0
                 THEN [found EXCEPT ![Len(found)].duration =
                                      time - found[Len(found)].start]
                 ELSE found
         IN DetectFrom(e, rate, i + 1,
                       Append(closed, [start |-> time, duration |-> 0]), i)
    ELSE DetectFrom(e, rate, i + 1, found, lastBeatIndex)

\* Variant of DetectBeats: the last beat ends with the last whole window.
DetectBeatsWholeWindows(d, rate) ==
  LET found == DetectFrom(Energies(d), rate, 0, << >>, 0 - MinBeatInterval)
  IN IF Len(found) > 0
       THEN [found EXCEPT ![Len(found)].duration =
               TimeOf(Len(d.amps) * WindowSize, rate) - found[Len(found)].start]
       ELSE found

\* detectBeats(data, sampleRate)
DetectBeats(d, rate) ==
  LET found == DetectFrom(Energies(d), rate, 0, << >>, 0 - MinBeatInterval)
  IN IF Len(found) > 0
       THEN [found EXCEPT ![Len(found)].duration =
               TimeOf(DataLength(d), rate) - found[Len(found)].start]
       ELSE found

\* Variant of OfflineContextThrows: only the length is validated.
OfflineContextThrowsOnEmpty(length, rate) ==
  IF length = 0 THEN {TRUE} ELSE {FALSE}

\* new OfflineAudioContext(1, length, sampleRate) of extractFeatures:
\* whether the constructor throws NotSupportedError, as the set of the
\* outcomes a browser can produce.  It throws when length is 0 and when
\* sampleRate is outside the range the browser supports.  Every browser
\* supports 8000 Hz .. 96000 Hz and none a rate of 0 or below; how far the
\* range goes beyond that is the browser's choice.
OfflineContextThrows(length, rate) ==
  IF length = 0 \/ rate <= 0 THEN {TRUE}
  ELSE IF rate >= 8000 /\ rate <= 96000 THEN {FALSE}
  ELSE {TRUE, FALSE}

\* analyzeAudio(audioBuffer), as far as its beats go: the results it can
\* have.  detectBeats and the statements of analyzeAudio itself throw on no
\* input; the promise is rejected, and no AnalysisData returned, when
\* extractFeatures throws.
AnalyzeAudio(d, rate) ==
  { IF throws
      THEN [failed |-> TRUE, beats |-> << >>, threshold |-> 0, duration |-> 0]
      ELSE [failed |-> FALSE,
            beats |-> DetectBeats(d, rate),
            threshold |-> DefaultSimilarityThreshold,
            duration |-> TimeOf(DataLength(d), rate)] :
    throws \in OfflineContextThrows(DataLength(d), rate) }

InitBeats ==
  /\ buffer = NULL
  /\ beats = << >>
  /\ edges = << >>
  /\ settings = [branchChance |-> DefaultBranchChance,
                 similarityThreshold |-> DefaultSimilarityThreshold]
  /\ nextNoteTime = 0
  /\ currentBeatIndex = 0
  /\ timerID = NULL
  /\ isPlaying = FALSE
  /\ clock = 0
  /\ audio = "suspended"
  /\ tickTimers = {}
  /\ notifyTimers = {}
  /\ hung = FALSE
  /\ plays = 0
  /\ sched = << >>
  /\ adv = << >>
  /\ delivered = << >>
  /\ pausedSegs = 0
  /\ calls = 0
  /\ lastCall = NoCall
  /\ app = NoApp
  /\ \E d \in SampleData(MaxWindows), r \in SampleRates :
       an = [stage |-> "input", data |-> d, rate |-> r]

\* analyzeAudio runs on the input.
Analyze ==
  /\ an.stage = "input"
  /\ \E res \in AnalyzeAudio(an.data, an.rate) :
       an' = [stage |-> "analysed", data |-> an.data, rate |-> an.rate,
              result |-> res]
  /\ UNCHANGED << buffer, beats, edges, settings, nextNoteTime,
                  currentBeatIndex, timerID, isPlaying, clock, audio, tickTimers,
                  notifyTimers, hung, plays, sched, adv, delivered, pausedSegs,
                  calls, lastCall, app >>

NextBeats == Analyze

SpecBeats == InitBeats /\ [][NextBeats]_vars

\* -------------------------------------------------- computeSimilarityEdges
\* Feature vectors have 12 components in [0, 1], counted in halves (1 is
\* FeatureOne).  Similarities are in hundredths, rounded up: the tests
\* similarity > 0.3 of the builder and similarity >= threshold of the
\* scheduler (thresholds are whole hundredths) come out exactly as on the
\* real values.
ChromaSize == 12
FeatureOne == 2
\* similarity > 0.3, in hundredths.
RetainAbove == 30

Vec(nz) == [c \in 1 .. ChromaSize |-> IF c \in DOMAIN nz THEN nz[c] ELSE 0]
ZeroVec == Vec(<< >>)
E0 == Vec(<< FeatureOne >>)
E1 == Vec(<< 0, FeatureOne >>)
HalfE0 == Vec(<< 1 >>)
LowSix == Vec(<< FeatureOne, FeatureOne, FeatureOne, FeatureOne, FeatureOne,
                 FeatureOne >>)
HighSix == [c \in 1 .. ChromaSize |-> FeatureOne - LowSix[c]]
FeatureVectors == {ZeroVec, E0, E1, HalfE0, LowSix, HighSix}

\* The feature lists of at most maxb beats.
FeatureLists(maxb) == UNION { [1 .. n -> FeatureVectors] : n \in 0 .. maxb }

\* The sum of euclideanDistance: the squared distance, in squared halves.
RECURSIVE SumSquaredDiffs(_, _, _)
SumSquaredDiffs(a, b, i) ==
  IF i > Len(a) THEN 0
  ELSE (a[i] - b[i]) * (a[i] - b[i]) + SumSquaredDiffs(a, b, i + 1)

\* 100 * euclideanDistance(a, b) / Math.sqrt(12), rounded down.
ScaledDistance(a, b) ==
  ISqrt((SumSquaredDiffs(a, b, 1) * 10000)
          \div (ChromaSize * FeatureOne * FeatureOne))

\* Variant of Similarity: the distance is normalised by sqrt(2), the
\* distance of two different unit vectors.
SimilarityUnitNorm(a, b) ==
  Max(0, 100 - ISqrt((SumSquaredDiffs(a, b, 1) * 10000)
                       \div (2 * FeatureOne * FeatureOne)))

\* similarity = Math.max(0, 1 - dist / Math.sqrt(12))
Similarity(a, b) == Max(0, 100 - ScaledDistance(a, b))

\* The pairs (i, j) in the order of the two loops, each with its similarity.
AllPairs(f) ==
  [k \in 1 .. (Len(f) * Len(f)) |->
     LET i == (k - 1) \div Len(f)
         j == (k - 1) % Len(f)
     IN Edge(i, j, Similarity(f[i + 1], f[j + 1]))]

\* Variant of ComputeSimilarityEdges: i === j is not skipped.
ComputeSimilarityEdgesWithSelf(f) ==
  SelectSeq(AllPairs(f), LAMBDA e : e.similarity > RetainAbove)

\* Variant of ComputeSimilarityEdges: the inner loop starts at j = i + 1.
ComputeSimilarityEdgesUpper(f) ==
  SelectSeq(AllPairs(f),
            LAMBDA e : e.source < e.dest /\ e.similarity > RetainAbove)

\* computeSimilarityEdges(beats), f being the features of the beats.
ComputeSimilarityEdges(f) ==
  SelectSeq(AllPairs(f),
            LAMBDA e : e.source # e.dest /\ e.similarity > RetainAbove)

InitGraph ==
  /\ buffer = NULL
  /\ beats = << >>
  /\ edges = << >>
  /\ settings = [branchChance |-> DefaultBranchChance,
                 similarityThreshold |-> DefaultSimilarityThreshold]
  /\ nextNoteTime = 0
  /\ currentBeatIndex = 0
  /\ timerID = NULL
  /\ isPlaying = FALSE
  /\ clock = 0
  /\ audio = "suspended"
  /\ tickTimers = {}
  /\ notifyTimers = {}
  /\ hung = FALSE
  /\ plays = 0
  /\ sched = << >>
  /\ adv = << >>
  /\ delivered = << >>
  /\ pausedSegs = 0
  /\ calls = 0
  /\ lastCall = NoCall
  /\ app = NoApp
  /\ \E f \in FeatureLists(MaxBeats) :
       an = [stage |-> "features", features |-> f]

\* computeSimilarityEdges runs on the beats.
BuildGraph ==
  /\ an.stage = "features"
  /\ an' = [stage |-> "graph", features |-> an.features,
            edges |-> ComputeSimilarityEdges(an.features)]
  /\ UNCHANGED << buffer, beats, edges, settings, nextNoteTime,
                  currentBeatIndex, timerID, isPlaying, clock, audio, tickTimers,
                  notifyTimers, hung, plays, sched, adv, delivered, pausedSegs,
                  calls, lastCall, app >>

NextGraph == BuildGraph

SpecGraph == InitGraph /\ [][NextGraph]_vars

\* ------------------------------------------------------------ foldToChroma
\* Magnitudes of the spectrum are counted in halves (1.0 is MagOne).  A
\* component of a feature vector is the fraction num / den.
FftSize == 2048
ChromaSampleRate == 44100
MinFreq == 100
MagOne == 2
Magnitudes == {0, 1, 3}
SegmentLengths == {2047, 2048}

\* (Math.round(12 * Math.log2(freq / 440) + 69) % 12 + 12) % 12 for
\* freq = k * 44100 / 2048, k = 1 .. 15.
PitchClassOfBin == << 5, 5, 0, 5, 9, 0, 2, 5, 7, 9, 10, 0, 1, 2, 4 >>

\* The spectra folded: bins 0 .. 2 are silent, every other bin up to maxbin
\* has one of the magnitudes.
Spectra(maxbin) ==
  { [k \in 0 .. maxbin |-> IF k < 3 THEN 0 ELSE g[k]] :
      g \in [3 .. maxbin -> Magnitudes] }

\* The loop of foldToChroma from bin k on: what is added to chroma[idx].
RECURSIVE ChromaSum(_, _, _)
ChromaSum(spectrum, idx, k) ==
  IF k \notin DOMAIN spectrum THEN 0
  ELSE ChromaSum(spectrum, idx, k + 1) +
         (IF /\ spectrum[k] # 0
             /\ ~(k * ChromaSampleRate < MinFreq * FftSize)
             /\ PitchClassOfBin[k] = idx
            THEN spectrum[k] ELSE 0)

\* Math.max(...chroma, floor)
RECURSIVE MaxFrom(_, _, _)
MaxFrom(chroma, c, floor) ==
  IF c >= ChromaSize THEN floor
  ELSE MaxFrom(chroma, c + 1, Max(floor, chroma[c]))

\* foldToChroma(spectrum, sampleRate, fftSize)
FoldToChroma(spectrum) ==
  LET chroma == [c \in 0 .. (ChromaSize - 1) |-> ChromaSum(spectrum, c, 1)]
      max == MaxFrom(chroma, 0, MagOne)
  IN [c \in 1 .. ChromaSize |-> [num |-> chroma[c - 1], den |-> max]]

\* The body of the loop of extractFeaturesJS for a segment of len samples
\* whose first fftSize samples have the given spectrum.
ExtractFeature(len, spectrum) ==
  IF len < FftSize
    THEN [c \in 1 .. ChromaSize |-> [num |-> 0, den |-> MagOne]]
    ELSE FoldToChroma(spectrum)

InitChroma ==
  /\ buffer = NULL
  /\ beats = << >>
  /\ edges = << >>
  /\ settings = [branchChance |-> DefaultBranchChance,
                 similarityThreshold |-> DefaultSimilarityThreshold]
  /\ nextNoteTime = 0
  /\ currentBeatIndex = 0
  /\ timerID = NULL
  /\ isPlaying = FALSE
  /\ clock = 0
  /\ audio = "suspended"
  /\ tickTimers = {}
  /\ notifyTimers = {}
  /\ hung = FALSE
  /\ plays = 0
  /\ sched = << >>
  /\ adv = << >>
  /\ delivered = << >>
  /\ pausedSegs = 0
  /\ calls = 0
  /\ lastCall = NoCall
  /\ app = NoApp
  /\ \E n \in SegmentLengths, sp \in Spectra(MaxBin) :
       an = [stage |-> "segment", len |-> n, spectrum |-> sp]

\* The feature of the segment is extracted.
ExtractFeatures ==
  /\ an.stage = "segment"
  /\ an' = [stage |-> "feature", len |-> an.len, spectrum |-> an.spectrum,
            feature |-> ExtractFeature(an.len, an.spectrum)]
  /\ UNCHANGED << buffer, beats, edges, settings, nextNoteTime,
                  currentBeatIndex, timerID, isPlaying, clock, audio, tickTimers,
                  notifyTimers, hung, plays, sched, adv, delivered, pausedSegs,
                  calls, lastCall, app >>

NextChroma == ExtractFeatures

SpecChroma == InitChroma /\ [][NextChroma]_vars

TypeOK ==
  /\ isPlaying \in BOOLEAN
  /\ hung \in BOOLEAN
  /\ plays \in 0 .. MaxPlays
  /\ clock \in 0 .. Max(MaxTime, MaxTimeApp)
  /\ audio \in {"suspended", "inStep", "behind"}
  /\ currentBeatIndex \in Nat

\* ------------------------------------------------------------ properties
\* The fields of the scheduler an observer of the engine can tell apart.
engineState == << buffer, beats, edges, settings, nextNoteTime,
                  currentBeatIndex, timerID, isPlaying, tickTimers,
                  notifyTimers >>

\* C1: play() called while Running and pause() called while Stopped are
\* no-ops: such a call leaves isPlaying, currentBeatIndex, nextNoteTime and
\* the set of armed tick timers exactly as they were.
C1_PlayPauseNoOp ==
  [][ ( \/ (lastCall'.op = "play" /\ lastCall'.wasPlaying)
        \/ (lastCall'.op = "pause" /\ ~lastCall'.wasPlaying) )
      => UNCHANGED << isPlaying, currentBeatIndex, nextNoteTime, tickTimers >>
    ]_vars

\* C1 witness: play() has just been called on a Running scheduler that has
\* already scheduled a segment, and whose nextNoteTime a restart would move.
C1_Witness ==
  /\ lastCall = [op |-> "play", wasPlaying |-> TRUE]
  /\ isPlaying
  /\ Len(sched) > 0
  /\ tickTimers # {}
  /\ nextNoteTime # clock + PlayDelay

\* C2: once pause() has returned no tick timer is armed, and as long as the
\* scheduler stays Stopped (until play()) no segment is scheduled and
\* currentBeatIndex keeps its value; a pause() of a Stopped scheduler
\* changes nothing of the engine (pause() is idempotent).
C2_PauseStops ==
  [][ /\ (~isPlaying' => tickTimers' = {})
      /\ ((~isPlaying /\ ~isPlaying') =>
            UNCHANGED << sched, currentBeatIndex, nextNoteTime >>)
      /\ ((lastCall'.op = "pause" /\ ~lastCall'.wasPlaying) =>
            UNCHANGED engineState)
    ]_vars

\* C2 witness: the scheduler is Stopped after a pause() that followed some
\* scheduling, and the clock has reached the point where a tick, had one
\* stayed armed, would schedule the next beat.
C2_Witness ==
  /\ ~isPlaying
  /\ Len(sched) > 0
  /\ pausedSegs = Len(sched)
  /\ buffer # NULL
  /\ HasBeat(currentBeatIndex)
  /\ nextNoteTime < clock + ScheduleAheadTime
  /\ tickTimers = {}

\* C3: no onProgress call is delivered for a segment that was scheduled
\* before a pause() once that pause() has returned.
C3_NoDeliveryAfterPause ==
  \A i \in DOMAIN delivered : ~delivered[i].afterPause

\* C4: with branchChance = 0 the scheduled beat indices are linear playback
\* with looping: each is the previously scheduled index + 1 modulo the
\* number of beats, whatever the edges and across pauses and plays.
C4_LinearPlayback ==
  settings.branchChance = 0 =>
    \A i \in 2 .. Len(sched) :
      sched[i].beatIndex = (sched[i - 1].beatIndex + 1) % Len(beats)

\* C4 witness: with branchChance = 0, three segments have been scheduled,
\* with a pause in between and a wrap to beat 0.
C4_Witness ==
  /\ settings.branchChance = 0
  /\ Len(sched) >= 3
  /\ pausedSegs > 0
  /\ \E i \in 2 .. Len(sched) : sched[i].beatIndex = 0

\* Every beat has at least one eligible non-adjacent candidate edge.
EveryBeatHasCandidate ==
  \A i \in 0 .. (Len(beats) - 1) : Len(Candidates(i)) > 0

\* C5: with branchChance = 1 and every beat having an eligible candidate,
\* no advance is linear: the index after an advance differs from the
\* previous index + 1.
C5_NeverLinear ==
  (settings.branchChance = 100 /\ EveryBeatHasCandidate) =>
    \A k \in DOMAIN adv : adv[k].to # adv[k].from + 1

\* C5 witness: under that setting a scheduler() call has advanced twice.
C5_Witness ==
  /\ settings.branchChance = 100
  /\ EveryBeatHasCandidate
  /\ Len(adv) >= 2

\* C6: every advance is either linear (index + 1, wrapping to 0) or a jump
\* along a stored edge from the current beat with similarity >= the
\* threshold and dest # index + 1; and a jump happens only if the draw was
\* below branchChance (the candidate set is then non-empty by the edge).
C6_AdvanceShape ==
  \A k \in DOMAIN adv :
    LET a == adv[k] IN
      IF a.jumped
        THEN /\ a.draw < settings.branchChance
             /\ \E n \in DOMAIN edges :
                  /\ edges[n].source = a.from
                  /\ edges[n].similarity >= settings.similarityThreshold
                  /\ edges[n].dest # a.from + 1
                  /\ edges[n].dest = a.to
        ELSE a.to = (IF a.from + 1 = Len(beats) THEN 0 ELSE a.from + 1)

\* C6 witness: a scheduler() call jumped from a beat one of whose
\* non-adjacent edges the threshold excludes, at a branchChance below 1.
C6_Witness ==
  /\ settings.branchChance < 100
  /\ \E k \in DOMAIN adv :
       /\ adv[k].jumped
       /\ \E n \in DOMAIN edges :
            /\ edges[n].source = adv[k].from
            /\ edges[n].dest # adv[k].from + 1
            /\ edges[n].similarity < settings.similarityThreshold

\* C7: no two scheduled segments have overlapping time ranges
\* [time, time + duration).
C7_NoOverlap ==
  \A i, j \in DOMAIN sched :
    i < j => \/ sched[i].time + sched[i].duration <= sched[j].time
             \/ sched[j].time + sched[j].duration <= sched[i].time

\* C8: segments are submitted in nondecreasing start-time order.
C8_NondecreasingStart ==
  \A i \in 2 .. Len(sched) : sched[i].time >= sched[i - 1].time

\* C8 witness: segments were scheduled before a pause and after the
\* following play().
C8_Witness ==
  /\ pausedSegs > 0
  /\ Len(sched) > pausedSegs
  /\ isPlaying

\* C9: a tick whose currentBeatIndex is outside the beat list never breaks
\* the tick loop: its scheduling pass terminates.
C9_TickTerminates == ~hung

\* C10: a load that replaces the beats of a Stopped scheduler resets
\* currentBeatIndex to 0.
C10_LoadResetsIndex ==
  [][ (beats' # beats /\ ~isPlaying) => currentBeatIndex' = 0 ]_vars

\* The segments (positions in sched) whose notification timer has fired.
FiredSegs ==
  { i \in DOMAIN sched : \A n \in notifyTimers : n.seg # i }

\* The positions in delivered of the notifications of segment i.
DeliveriesOf(i) == { k \in DOMAIN delivered : delivered[k].seg = i }

\* Notifications arrive in scheduling order, none twice.
DeliveredInOrder(d) ==
  \A k \in 2 .. Len(d) : d[k - 1].seg < d[k].seg

\* C11: every segment that has become audible, its
\* notification timer having run, has been notified
\* exactly once, the notifications arriving in scheduling order; a segment
\* enqueued before a pause() is not left without its notification.
C11_NotifiedOncePerSegment ==
  /\ \A i \in FiredSegs : Cardinality(DeliveriesOf(i)) = 1
  /\ DeliveredInOrder(delivered)

\* C12: a load that fails, in decoding or in analysis, leaves the scheduler
\* Stopped and holding exactly the beats and edges of the previously loaded
\* track (none if there was no such track); nothing of the failed analysis
\* is published to the App or to the engine.
C12_FailedLoadKeepsTrack ==
  [][ lastCall' = LoadFailed =>
        /\ ~isPlaying'
        /\ beats' = app.analysis.beats
        /\ edges' = app.analysis.edges
        /\ app'.analysis = app.analysis
        /\ ~app'.isPlaying
    ]_vars

\* C12 witness: the analysis of a second file has just failed; the first
\* track had been analysed and was playing when the second file was picked.
C12_Witness ==
  /\ lastCall = LoadFailed
  /\ app.status = "Analysis Failed."
  /\ app.analysis # NoTrack
  /\ app.pausedByLoad

C15_CoversWholeTrack ==
  (an.stage = "analysed" /\ an.rate > 0 /\ Len(an.result.beats) > 0) =>
    LET b == an.result.beats IN
      /\ b[1].start = 0
      /\ b[Len(b)].start + b[Len(b)].duration = an.result.duration

\* C16: the beats returned (at a positive sample rate) are ordered by
\* start, contiguous and non-overlapping: each beat ends where the next
\* one starts, and the last beat ends at the total duration.
C16_Contiguous ==
  (an.stage = "analysed" /\ an.rate > 0) =>
    LET b == an.result.beats IN
      /\ \A i \in 1 .. (Len(b) - 1) :
           /\ b[i].start < b[i + 1].start
           /\ b[i].start + b[i].duration = b[i + 1].start
      /\ Len(b) > 0 =>
           /\ b[Len(b)].duration > 0
           /\ b[Len(b)].start + b[Len(b)].duration = an.result.duration

\* C16 witness: three beats were found in a sequence that does not end on
\* a window boundary.
C16_Witness ==
  /\ an.stage = "analysed"
  /\ an.rate > 0
  /\ Len(an.result.beats) >= 3
  /\ an.data.tail > 0

\* An advance follows the rule of advanceBeat under the settings st: a jump
\* needs a draw below st.branchChance and an edge from the current beat of
\* similarity >= st.similarityThreshold that does not lead to the next
\* beat; any other advance is linear.
AdvanceUnder(a, st) ==
  IF a.jumped
    THEN /\ a.draw < st.branchChance
         /\ \E n \in DOMAIN edges :
              /\ edges[n].source = a.from
              /\ edges[n].similarity >= st.similarityThreshold
              /\ edges[n].dest # a.from + 1
              /\ edges[n].dest = a.to
    ELSE /\ a.to = (IF a.from + 1 >= Len(beats) THEN 0 ELSE a.from + 1)
         /\ ~(/\ a.draw < st.branchChance
              /\ \E n \in DOMAIN edges :
                   /\ edges[n].source = a.from
                   /\ edges[n].similarity >= st.similarityThreshold
                   /\ edges[n].dest # a.from + 1)

\* C14: updateSettings(partial) sets exactly the fields present in partial
\* to the partial's values and keeps the other field, and it leaves
\* currentBeatIndex, nextNoteTime and isPlaying alone; every advance made
\* by a later scheduler() call follows, in both fields, the settings as
\* they are at that call.
C14_UpdateSettingsFrame ==
  [][ /\ lastCall'.op = "updateSettings" =>
           /\ \A k \in SettingKeys :
                settings'[k] = IF k \in DOMAIN lastCall'.partial
                                 THEN lastCall'.partial[k]
                                 ELSE settings[k]
           /\ UNCHANGED << currentBeatIndex, nextNoteTime, isPlaying >>
      /\ (sched' # sched \/ nextNoteTime' # nextNoteTime) =>
           /\ settings' = settings
           /\ \A k \in DOMAIN adv' : AdvanceUnder(adv'[k], settings)
    ]_vars

\* C14 witness: updateSettings has just been called with a partial that
\* holds branchChance only, on a Running scheduler that had advanced past
\* beat 0, and it changed the setting.
C14_Witness ==
  /\ lastCall.op = "updateSettings"
  /\ lastCall.wasPlaying
  /\ DOMAIN lastCall.partial = {"branchChance"}
  /\ settings.branchChance # DefaultBranchChance
  /\ currentBeatIndex > 0
  /\ tickTimers # {}

\* The edges of a sequence, as a set.
EdgeSet(es) == { es[n] : n \in DOMAIN es }

\* C17: no edge of the graph has source = dest, both ends are beat indices
\* (0 .. N - 1), and every edge has a similarity above 0.3 and at most 1.
C17_EdgesWellFormed ==
  an.stage = "graph" =>
    \A e \in EdgeSet(an.edges) :
      /\ e.source # e.dest
      /\ e.source \in 0 .. (Len(an.features) - 1)
      /\ e.dest \in 0 .. (Len(an.features) - 1)
      /\ e.similarity > RetainAbove
      /\ e.similarity <= 100

\* C17 witness: a graph of three or more beats with an edge, with a pair of
\* different beats too dissimilar for an edge, and with two beats of equal
\* features.
C17_Witness ==
  /\ an.stage = "graph"
  /\ Len(an.features) >= 3
  /\ an.edges # << >>
  /\ \E i, j \in DOMAIN an.features :
       i # j /\ Similarity(an.features[i], an.features[j]) <= RetainAbove
  /\ \E i, j \in DOMAIN an.features :
       i # j /\ an.features[i] = an.features[j]

\* The four beats of the scenario: features e0, e0, e1, e1.
ScenarioFeatures == << E0, E0, E1, E1 >>

\* C18: for the four beats with features e0, e0, e1, e1 the graph has the
\* edge (0, 1) with similarity 1, and the similarity of beats 0 and 2 is
\* below the default threshold 0.4.
C18_ScenarioBelowThreshold ==
  (an.stage = "graph" /\ an.features = ScenarioFeatures) =>
    /\ Edge(0, 1, 100) \in EdgeSet(an.edges)
    /\ Similarity(an.features[1], an.features[3]) < DefaultSimilarityThreshold

\* C18 (amended): for the four beats with features e0, e0, e1, e1 the graph
\* has the edge (0, 1) with similarity 1, and the similarity of beats 0 and
\* 2 is 1 - sqrt(2 / 12), 0.60 in rounded-up hundredths: above the default
\* threshold 0.4, so that the edge (0, 2) is stored too.
C18_ScenarioSimilarities ==
  (an.stage = "graph" /\ an.features = ScenarioFeatures) =>
    /\ Edge(0, 1, 100) \in EdgeSet(an.edges)
    /\ Similarity(an.features[1], an.features[3]) = 60
    /\ Edge(0, 2, 60) \in EdgeSet(an.edges)

\* C18 witness: the graph of the scenario's four beats has been built.
C18_Witness ==
  /\ an.stage = "graph"
  /\ an.features = ScenarioFeatures
  /\ Len(an.edges) > 0

\* C19: similarity is symmetric, and the graph has the edge (a, b) exactly
\* when it has the edge (b, a), with the same similarity.
C19_Symmetric ==
  an.stage = "graph" =>
    /\ \A i, j \in DOMAIN an.features :
         Similarity(an.features[i], an.features[j])
           = Similarity(an.features[j], an.features[i])
    /\ \A e \in EdgeSet(an.edges) :
         Edge(e.dest, e.source, e.similarity) \in EdgeSet(an.edges)

\* C19 witness: a graph with edges of two different similarities, and with
\* a pair of beats that has no edge.
C19_Witness ==
  /\ an.stage = "graph"
  /\ \E e1, e2 \in EdgeSet(an.edges) : e1.similarity < e2.similarity
  /\ \E i, j \in DOMAIN an.features :
       /\ i < j
       /\ \A e \in EdgeSet(an.edges) : ~(e.source = i - 1 /\ e.dest = j - 1)

\* C20: every feature vector has exactly 12 components, each in [0, 1],
\* and either one of them equals 1 or all of them are 0.
C20_NormalisedFeature ==
  an.stage = "feature" =>
    /\ DOMAIN an.feature = 1 .. 12
    /\ \A c \in DOMAIN an.feature :
         /\ an.feature[c].den > 0
         /\ 0 <= an.feature[c].num
         /\ an.feature[c].num <= an.feature[c].den
    /\ \/ \E c \in DOMAIN an.feature : an.feature[c].num = an.feature[c].den
       \/ \A c \in DOMAIN an.feature : an.feature[c].num = 0

\* The windows detectBeats declared onsets at, read off the beats' starts.
OnsetWindows ==
  { i \in 0 .. (Len(an.data.amps) - 1) :
      \E n \in DOMAIN an.result.beats :
        an.result.beats[n].start = TimeOf(i * WindowSize, an.rate) }

\* C21: window i is declared an onset exactly when energy[i] is above 1.5
\* times the mean energy of the windows [max(0, i - 43), i) and at least 13
\* windows have elapsed since the last declared onset (any number if there
\* was none yet); no early window is suppressed.
\* The mean is the sum of those windows' energies over their number, i -
\* max(0, i - 43); the mean of no window at all counts as 0.
C21_OnsetRule ==
  (an.stage = "analysed" /\ an.rate > 0 /\ ~an.result.failed) =>
    \A i \in 0 .. (Len(an.data.amps) - 1) :
      LET earlier == { j \in OnsetWindows : j < i }
          e == Energies(an.data)
          aboveMean ==
            IF i = HistoryStart(i)
              THEN e[i + 1] > 0
              ELSE e[i + 1] * (i - HistoryStart(i)) * MultiplierDen
                     > SumEnergies(e, HistoryStart(i), i) * MultiplierNum
      IN i \in OnsetWindows <=>
           /\ aboveMean
           /\ \A j \in earlier : i - j >= MinBeatInterval

\* C22 as stated: the observer is notified of a segment no earlier than the
\* start time the segment was scheduled for: when the notification is
\* delivered, ctx.currentTime has reached that start.
C22_NotifiedAtStart ==
  [][ delivered' # delivered =>
        /\ Len(delivered') = Len(delivered) + 1
        /\ clock >= sched[delivered'[Len(delivered')].seg].time
    ]_vars

\* C22 as amended: the observer is notified of a segment never at
\* scheduling time when its start lies in the future, but only once the
\* time that was left until the start, max(0, start - ctx.currentTime) at
\* scheduling, has passed on the timer clock; ctx.currentTime may then
\* still read less than the start.
C22_NotifiedAfterDelay ==
  [][ delivered' # delivered =>
        /\ Len(delivered') = Len(delivered) + 1
        /\ \E n \in notifyTimers \ notifyTimers' :
             /\ n.seg = delivered'[Len(delivered')].seg
             /\ n.delay - n.due >= Max(0, sched[n.seg].time - n.at)
    ]_vars

\* C22 witness: a segment has been notified on a Running scheduler before
\* ctx.currentTime reached its start, while the notification of a later
\* segment is still pending.
C22_Witness ==
  /\ isPlaying
  /\ \E k \in DOMAIN delivered : sched[delivered[k].seg].time > clock
  /\ \E n \in notifyTimers : n.due > 0

\* C23: the track never ends: as long as the scheduler is Running, again
\* and again a tick schedules a new segment and leaves the next tick armed,
\* without the loop hanging; the last beat is followed by another beat.
C23_NeverEnds ==
  []<>( \/ ~isPlaying
        \/ (Len(sched) > 0 /\ tickTimers # {} /\ ~hung) )

\* C23 witness: a Running scheduler has just scheduled the last beat of
\* the track and moved on to beat 0, with the next tick armed.
C23_Witness ==
  /\ isPlaying
  /\ Len(sched) > 0
  /\ sched[Len(sched)].beatIndex = Len(beats) - 1
  /\ currentBeatIndex = 0
  /\ tickTimers # {}

\* C24: at most one tick timer is armed at any time: exactly one, the one
\* whose handle timerID holds, while the scheduler is Running, and none
\* while it is Stopped.  It holds for a loaded track (SpecFixed); with no
\* beat at currentBeatIndex the tick's loop never ends and never re-arms.
C24_OneTickTimer ==
  IF isPlaying
    THEN \E t \in tickTimers : tickTimers = {t} /\ t.id = timerID
    ELSE tickTimers = {}

\* C25: a branch taken from beat c never lands on the beat that linear
\* playback would play next, the wraparound included: from the last beat a
\* jump along an edge to beat 0 is not taken as a branch.
C25_BranchNeverLinear ==
  \A k \in DOMAIN adv :
    adv[k].jumped => adv[k].to # LinearNext(adv[k].from)

\* C26: for a fixed track with N >= 1 beats whose edges all lead to beats
\* 0..N-1, currentBeatIndex stays within 0..N-1 over play(), pause(), ticks
\* and updateSettings(): every segment scheduled, and every index an advance
\* leaves for the next scheduleNote, is a valid beat index.
C26_IndexInRange ==
  LET valid == 0 .. (Len(beats) - 1) IN
    /\ currentBeatIndex \in valid
    /\ \A k \in DOMAIN adv : adv[k].from \in valid /\ adv[k].to \in valid
    /\ \A k \in DOMAIN sched : sched[k].beatIndex \in valid
    /\ ~hung

\* C26 witness: settings were updated, playback was paused and resumed, and
\* the latest tick advanced from the last beat back to beat 0.
C26_Witness ==
  /\ calls > 0
  /\ pausedSegs > 0
  /\ isPlaying
  /\ currentBeatIndex = 0
  /\ \E k \in DOMAIN adv : adv[k].from = Len(beats) - 1 /\ adv[k].to = 0

\* C27: whenever the scheduler schedules a segment, the sample buffer it
\* cuts from and the beat list it indexes belong to the same loaded track,
\* over loads (successful, decode-failed or analysis-failed), plays and
\* pauses through the application.
C27_BufferMatchesBeats ==
  [][ (Len(sched') > Len(sched) /\ app.mounted) =>
        \E f \in Files :
          /\ f.analyses
          /\ buffer' = f.id
          /\ beats' = f.track.beats
          /\ edges' = f.track.edges ]_vars

====
